---- MODULE Spec2Model ----
(***************************************************************************)
(* Model of the OLAP cube engine of my-olap-app: the pure data operations  *)
(* of src/data/dataProcessor.jsx and the cube state held by the App        *)
(* component (src/App.jsx), driven by the events the controls and the data *)
(* table submit.                                                           *)
(*                                                                         *)
(* JavaScript strings are sequences of one-character strings, so that      *)
(* toLowerCase, includes and template concatenation are computed.  An      *)
(* object is a record; a property that is undefined is a field that is     *)
(* absent from the record's domain.                                        *)
(***************************************************************************)
EXTENDS Integers, Sequences, FiniteSets, TLC

\* ------------------------------------------------------------------ bounds
\* Largest number of rows the data table hands to the engine.
MaxRows == 2

\* ----------------------------------------------------------------- strings
\* String.prototype.toLowerCase on one character (the letters the inputs use).
LowerChar(c) ==
  CASE c = "A" -> "a"
    [] c = "B" -> "b"
    [] c = "P" -> "p"
    [] c = "Q" -> "q"
    [] c = "T" -> "t"
    [] OTHER -> c

\* String.prototype.toLowerCase.
toLowerCase(s) == [i \in 1..Len(s) |-> LowerChar(s[i])]

\* String.prototype.includes: sub occurs in s as a contiguous substring.
includes(s, sub) ==
  \E i \in 0..(Len(s) - Len(sub)) : SubSeq(s, i + 1, i + Len(sub)) = sub

\* One decimal digit as a character.
Digit(d) ==
  CASE d = 0 -> "0" [] d = 1 -> "1" [] d = 2 -> "2" [] d = 3 -> "3"
    [] d = 4 -> "4" [] d = 5 -> "5" [] d = 6 -> "6" [] d = 7 -> "7"
    [] d = 8 -> "8" [] OTHER -> "9"

RECURSIVE NumStr(_)
\* Template-literal conversion of a non-negative integer to its decimal string.
NumStr(n) == IF n < 10 THEN <<Digit(n)>> ELSE NumStr(n \div 10) \o <<Digit(n % 10)>>

\* -------------------------------------------------------------- dimensions
\* availableDimensions handed to the controls.
availableDimensions == {"continent", "region", "product", "quarter"}

\* dimensionsForSliceDice: the dimensions offered for slice and dice.
dimensionsForSliceDice == availableDimensions \ {"quarter"}

\* The quarter columns, in the order processRawData visits them.
Quarters == <<"Q1", "Q2", "Q3", "Q4">>

\* The quarter column name as a JavaScript string.
QuarterStr(q) == <<"Q", Digit(CHOOSE i \in 1..4 : Quarters[i] = q)>>

\* The value rolled-up facts carry in their quarter field.
TotalStr == <<"T", "o", "t", "a", "l">>

\* The mapping the App starts with and reset restores.
defaultMap == [x |-> "continent", y |-> "region", z |-> "quarter"]

\* obj[key] is defined (the property is present).
Has(obj, key) == key \in DOMAIN obj

\* Variant of Truthy that only tests for undefined.
Truthy_DefinedOnly(obj, key) == Has(obj, key)

\* JavaScript truthiness of obj[key] for a string-valued property:
\* undefined and the empty string are falsy.
Truthy(obj, key) == Has(obj, key) /\ obj[key] # <<>>

\* String(obj[key]).
StringOf(obj, key) ==
  IF Has(obj, key) THEN obj[key] ELSE <<"u","n","d","e","f","i","n","e","d">>

\* --------------------------------------------------------- fact expansion
\* The fact processRawData pushes for one row and one quarter.
ExpandedFact(row, q) ==
  [k \in ({"id", "quarter", "value"}
            \cup ({"continent", "region", "product", "Q1", "Q2", "Q3", "Q4"}
                    \cap DOMAIN row)) |->
     CASE k = "id" -> NumStr(row.id) \o <<"-">> \o QuarterStr(q)
       [] k = "quarter" -> QuarterStr(q)
       [] k = "value" -> row[q]
       [] OTHER -> row[k]]

RECURSIVE RowFacts_TruthyQuarter(_, _)
\* Variant of RowFacts that tests the quarter value for truthiness.
RowFacts_TruthyQuarter(row, i) ==
  IF i > Len(Quarters) THEN <<>>
  ELSE (IF Has(row, Quarters[i]) /\ row[Quarters[i]] # 0
        THEN <<ExpandedFact(row, Quarters[i])>> ELSE <<>>)
         \o RowFacts_TruthyQuarter(row, i + 1)

RECURSIVE RowFacts(_, _)
\* The facts of one surviving row for the quarters from index i on.
RowFacts(row, i) ==
  IF i > Len(Quarters) THEN <<>>
  ELSE (IF Has(row, Quarters[i]) THEN <<ExpandedFact(row, Quarters[i])>> ELSE <<>>)
         \o RowFacts(row, i + 1)

RECURSIVE processRawData_NewestFirst(_, _)
\* Variant of processRawData that puts the facts of a row before those of the
\* rows above it.
processRawData_NewestFirst(rows, mapping) ==
  IF rows = <<>> THEN <<>>
  ELSE LET row == Head(rows)
           skip == ~Truthy(row, mapping.x) \/ ~Truthy(row, mapping.y)
       IN processRawData_NewestFirst(Tail(rows), mapping)
            \o (IF skip THEN <<>> ELSE RowFacts(row, 1))

RECURSIVE processRawData(_, _)
\* processRawData(rawData, axisMapping).
processRawData(rows, mapping) ==
  IF rows = <<>> THEN <<>>
  ELSE LET row == Head(rows)
           skip == ~Truthy(row, mapping.x) \/ ~Truthy(row, mapping.y)
       IN (IF skip THEN <<>> ELSE RowFacts(row, 1))
            \o processRawData(Tail(rows), mapping)

\* ------------------------------------------------------------------ filters
\* Variant of Matches that lower-cases the filter value only.
Matches_ItemCaseKept(item, dimension, value) ==
  includes(StringOf(item, dimension), toLowerCase(value))

\* The predicate both filters evaluate for one dimension and one value.
Matches(item, dimension, value) ==
  includes(toLowerCase(StringOf(item, dimension)), toLowerCase(value))

\* Variant of applySlice without the early return for an empty argument.
applySlice_NoGuard(data, dimension, value) ==
  LET keep(item) == Matches(item, dimension, value)
  IN SelectSeq(data, keep)

\* applySlice(data, dimension, value).
applySlice(data, dimension, value) ==
  IF dimension = "" \/ value = <<>> THEN data
  ELSE LET keep(item) == Matches(item, dimension, value)
       IN SelectSeq(data, keep)

\* Variant of applyDice that keeps an item as soon as one filter matches.
applyDice_SomeFilter(data, filters) ==
  IF DOMAIN filters = {} THEN data
  ELSE LET keep(item) ==
             \E dimension \in DOMAIN filters :
               filters[dimension] = <<>> \/ Matches(item, dimension, filters[dimension])
       IN SelectSeq(data, keep)

\* applyDice(data, filters).
applyDice(data, filters) ==
  IF DOMAIN filters = {} THEN data
  ELSE LET keep(item) ==
             \A dimension \in DOMAIN filters :
               filters[dimension] = <<>> \/ Matches(item, dimension, filters[dimension])
       IN SelectSeq(data, keep)

\* ------------------------------------------------------------- aggregation
\* The grouping key of applyRollUp.
RollUpKey(item) ==
  StringOf(item, "continent") \o <<"-">> \o StringOf(item, "region")
    \o <<"-">> \o StringOf(item, "product")

\* Variant of RollUpEntry that copies the whole item into the entry.
RollUpEntry_SpreadsItem(item) ==
  [k \in ({"id", "Total"} \cup DOMAIN item) |->
     CASE k = "id" -> RollUpKey(item)
       [] k = "Total" -> 0
       [] OTHER -> item[k]]

\* The entry applyRollUp creates when it first sees a key.
RollUpEntry(item) ==
  [k \in ({"id", "Total"}
            \cup ({"continent", "region", "product", "Q1", "Q2", "Q3", "Q4"}
                    \cap DOMAIN item)) |->
     CASE k = "id" -> RollUpKey(item)
       [] k = "Total" -> 0
       [] OTHER -> item[k]]

\* The index of the entry with the key of item in the map, 0 if none.
RollUpIndex(map, item) ==
  IF \E i \in 1..Len(map) : map[i].id = RollUpKey(item)
  THEN CHOOSE i \in 1..Len(map) : map[i].id = RollUpKey(item)
  ELSE 0

\* One iteration of the forEach of applyRollUp: the map after item.
RollUpStep(map, item) ==
  LET withKey == IF RollUpIndex(map, item) = 0
                 THEN Append(map, RollUpEntry(item)) ELSE map
      i == RollUpIndex(withKey, item)
      add == IF Truthy(item, "quarter") /\ Has(item, "value") THEN item.value ELSE 0
  IN [withKey EXCEPT ![i] = [@ EXCEPT !.Total = @ + add]]

RECURSIVE RollUpFold(_, _)
\* The map (in insertion order) after the forEach over data.
RollUpFold(map, data) ==
  IF data = <<>> THEN map ELSE RollUpFold(RollUpStep(map, Head(data)), Tail(data))

\* The final map: every entry gets quarter = 'Total'.
WithTotalQuarter(entry) ==
  [k \in DOMAIN entry \cup {"quarter"} |->
     IF k = "quarter" THEN TotalStr ELSE entry[k]]

\* applyRollUp(data).
applyRollUp(data) ==
  LET map == RollUpFold(<<>>, data)
  IN [i \in 1..Len(map) |-> WithTotalQuarter(map[i])]

\* -------------------------------------------------------------- cube state
VARIABLES
  rawData,                      \* App state rawData: the rows loaded from the table
  cubeData,                     \* App state cubeData: the facts shown
  axisMapping,                  \* App state axisMapping
  currentFilters,               \* App state currentFilters
  isRolledUp,                   \* App state isRolledUp
  originalCubeDataBeforeRollUp, \* App state originalCubeDataBeforeRollUp
  pendingEffect,                \* the effect on [rawData, axisMapping] is scheduled
  lastEvent,                    \* history: the last event submitted and how the cube was then
  beforeRollUp,                 \* history: the cube just before the roll-up in force
  sliceDimension,               \* OlapControls state sliceDimension
  sliceValue,                   \* OlapControls state sliceValue
  diceFilters,                  \* OlapControls state diceFilters
  tableData,                    \* DataTable state tableData
  newRow                        \* DataTable state newRow

vars == <<rawData, cubeData, axisMapping, currentFilters, isRolledUp,
          originalCubeDataBeforeRollUp, pendingEffect, lastEvent, beforeRollUp,
          sliceDimension, sliceValue, diceFilters, tableData, newRow>>

\* The input state of the controls, which no handler of the App touches.
controls == <<sliceDimension, sliceValue, diceFilters>>

\* The controls as mounted: useState('continent'), useState(''), useState({}).
InitControls ==
  /\ sliceDimension = "continent"
  /\ sliceValue = <<>>
  /\ diceFilters = [d \in {} |-> <<>>]

\* The state of the data table, which no handler of the App touches.
table == <<tableData, newRow>>

\* The inputs of the 'Add New Data' form when they are cleared.
BlankRow ==
  [continent |-> <<>>, region |-> <<>>, product |-> <<>>,
   Q1 |-> 0, Q2 |-> 0, Q3 |-> 0, Q4 |-> 0]

\* The table as mounted: useState(data) with the App's empty rawData, and the
\* cleared form.
InitTable ==
  /\ tableData = <<>>
  /\ newRow = BlankRow

\* The empty object {}.
EmptyObject == [d \in {} |-> <<>>]

\* ------------------------------------------------------------------ inputs
\* The row contents the table user types: dimension strings and measures.
RowContents ==
  { [continent |-> <<"A">>, region |-> <<"b">>, product |-> <<"p">>,
     Q1 |-> 1, Q2 |-> 2, Q3 |-> 3, Q4 |-> 4],
    [continent |-> <<>>, region |-> <<"a">>, product |-> <<"p">>,
     Q1 |-> 5, Q2 |-> 0, Q3 |-> 6, Q4 |-> 0] }

\* A table row: the typed contents under the id the table gave it.
TableRow(id, content) ==
  [k \in DOMAIN content \cup {"id"} |-> IF k = "id" THEN id ELSE content[k]]

\* The tables handed over by 'load': up to MaxRows rows with ids 1, 2, ...
DataChoices ==
  UNION { { [i \in 1..n |-> TableRow(i, c[i])] : c \in [1..n -> RowContents] }
          : n \in 0..MaxRows }

\* The texts typed into a slice or dice input.
FilterValues == { <<>>, <<"A">> }

\* The filter maps handleApplyDice passes on: empty inputs are dropped.
DiceChoices ==
  UNION { [D -> FilterValues \ {<<>>}] : D \in SUBSET dimensionsForSliceDice }

\* The axis selections a pivot request can carry.
PivotChoices ==
  { [x |-> px, y |-> py, z |-> pz] :
      px \in {"continent", "region"}, py \in {"region", "product"},
      pz \in {"quarter", "region"} }

\* The record kept in lastEvent.
Event(op, dimension, value, filters, mapping) ==
  [op |-> op, dimension |-> dimension, value |-> value, filters |-> filters,
   mapping |-> mapping, wasRolledUp |-> isRolledUp,
   hadFilters |-> DOMAIN currentFilters # {}]

\* The record kept in beforeRollUp when no roll-up is in force.
NoRollUp ==
  [taken |-> FALSE, facts |-> <<>>, filters |-> EmptyObject, mapping |-> defaultMap]

\* ------------------------------------------------------------------- init
\* The App after its first render: the mount effect is still to run.
Init ==
  /\ rawData = <<>>
  /\ cubeData = <<>>
  /\ axisMapping = defaultMap
  /\ currentFilters = EmptyObject
  /\ isRolledUp = FALSE
  /\ originalCubeDataBeforeRollUp = <<>>
  /\ pendingEffect = TRUE
  /\ lastEvent = [op |-> "mount", dimension |-> "", value |-> <<>>,
                  filters |-> EmptyObject, mapping |-> defaultMap,
                  wasRolledUp |-> FALSE, hadFilters |-> FALSE]
  /\ beforeRollUp = NoRollUp
  /\ InitControls
  /\ InitTable

\* ----------------------------------------------------------------- actions
\* Variant of CubeEffect that leaves the filters in place.
CubeEffect_KeepsFilters ==
  /\ pendingEffect
  /\ IF Len(rawData) > 0
     THEN LET processed == processRawData(rawData, axisMapping)
          IN /\ cubeData' = processed
             /\ originalCubeDataBeforeRollUp' = processed
     ELSE /\ cubeData' = <<>>
          /\ UNCHANGED originalCubeDataBeforeRollUp
  /\ isRolledUp' = FALSE
  /\ pendingEffect' = FALSE
  /\ UNCHANGED <<rawData, axisMapping, currentFilters, lastEvent, beforeRollUp>>
  /\ UNCHANGED controls
  /\ UNCHANGED table

\* useEffect(..., [rawData, axisMapping]): recompute the cube.
CubeEffect ==
  /\ pendingEffect
  /\ IF Len(rawData) > 0
     THEN LET processed == processRawData(rawData, axisMapping)
          IN /\ cubeData' = processed
             /\ originalCubeDataBeforeRollUp' = processed
     ELSE /\ cubeData' = <<>>
          /\ UNCHANGED originalCubeDataBeforeRollUp
  /\ isRolledUp' = FALSE
  /\ currentFilters' = EmptyObject
  /\ pendingEffect' = FALSE
  /\ UNCHANGED <<rawData, axisMapping, lastEvent, beforeRollUp>>
  /\ UNCHANGED controls
  /\ UNCHANGED table

\* handleDataTableChange(newData): the table's 'load' hands over a new array.
handleDataTableChange(newData) ==
  /\ ~pendingEffect
  /\ rawData' = newData
  /\ pendingEffect' = TRUE
  /\ lastEvent' = Event("load", "", <<>>, EmptyObject, axisMapping)
  /\ beforeRollUp' = NoRollUp
  /\ UNCHANGED <<cubeData, axisMapping, currentFilters, isRolledUp,
                 originalCubeDataBeforeRollUp>>
  /\ UNCHANGED controls
  /\ UNCHANGED table

\* Variant of handleSlice that leaves the rolled-up flag as it is.
handleSlice_KeepsRolledUp(dimension, value) ==
  /\ ~pendingEffect
  /\ LET newFilters == [d \in DOMAIN currentFilters \cup {dimension} |->
                          IF d = dimension THEN value ELSE currentFilters[d]]
         filteredData == applySlice(originalCubeDataBeforeRollUp, dimension, value)
     IN /\ currentFilters' = newFilters
        /\ cubeData' = filteredData
  /\ lastEvent' = Event("slice", dimension, value, EmptyObject, axisMapping)
  /\ beforeRollUp' = NoRollUp
  /\ UNCHANGED <<rawData, axisMapping, originalCubeDataBeforeRollUp, pendingEffect,
                 isRolledUp>>
  /\ UNCHANGED controls
  /\ UNCHANGED table

\* handleSlice(dimension, value).
handleSlice(dimension, value) ==
  /\ ~pendingEffect
  /\ LET newFilters == [d \in DOMAIN currentFilters \cup {dimension} |->
                          IF d = dimension THEN value ELSE currentFilters[d]]
         filteredData == applySlice(originalCubeDataBeforeRollUp, dimension, value)
     IN /\ currentFilters' = newFilters
        /\ cubeData' = filteredData
  /\ isRolledUp' = FALSE
  /\ lastEvent' = Event("slice", dimension, value, EmptyObject, axisMapping)
  /\ beforeRollUp' = NoRollUp
  /\ UNCHANGED <<rawData, axisMapping, originalCubeDataBeforeRollUp, pendingEffect>>
  /\ UNCHANGED controls
  /\ UNCHANGED table

\* handleDice(filters).
handleDice(filters) ==
  /\ ~pendingEffect
  /\ currentFilters' = filters
  /\ cubeData' = applyDice(originalCubeDataBeforeRollUp, filters)
  /\ isRolledUp' = FALSE
  /\ lastEvent' = Event("dice", "", <<>>, filters, axisMapping)
  /\ beforeRollUp' = NoRollUp
  /\ UNCHANGED <<rawData, axisMapping, originalCubeDataBeforeRollUp, pendingEffect>>
  /\ UNCHANGED controls
  /\ UNCHANGED table

\* handlePivot(newMapping): a new mapping object always schedules the effect.
handlePivot(newMapping) ==
  /\ axisMapping' = newMapping
  /\ isRolledUp' = FALSE
  /\ pendingEffect' = TRUE
  /\ UNCHANGED <<rawData, cubeData, currentFilters, originalCubeDataBeforeRollUp>>

\* Variant of handleApplyPivot that skips the uniqueness validation.
handleApplyPivot_NoValidation(pivotX, pivotY, pivotZ) ==
  /\ ~pendingEffect
  /\ handlePivot([x |-> pivotX, y |-> pivotY, z |-> pivotZ])
  /\ lastEvent' = Event("pivot", "", <<>>, EmptyObject,
                        [x |-> pivotX, y |-> pivotY, z |-> pivotZ])
  /\ beforeRollUp' = NoRollUp
  /\ UNCHANGED controls
  /\ UNCHANGED table

\* Variant of handleApplyPivot that only rejects three equal selections.
handleApplyPivot_WeakValidation(pivotX, pivotY, pivotZ) ==
  /\ ~pendingEffect
  /\ LET uniqueAxes == {pivotX, pivotY, pivotZ}
     IN IF Cardinality(uniqueAxes) < 2
        THEN UNCHANGED <<rawData, cubeData, axisMapping, currentFilters, isRolledUp,
                         originalCubeDataBeforeRollUp, pendingEffect>>
        ELSE handlePivot([x |-> pivotX, y |-> pivotY, z |-> pivotZ])
  /\ lastEvent' = Event("pivot", "", <<>>, EmptyObject,
                        [x |-> pivotX, y |-> pivotY, z |-> pivotZ])
  /\ beforeRollUp' = IF Cardinality({pivotX, pivotY, pivotZ}) < 2
                     THEN beforeRollUp ELSE NoRollUp
  /\ UNCHANGED controls
  /\ UNCHANGED table

\* handleApplyPivot of the controls with the selections pivotX, pivotY, pivotZ.
handleApplyPivot(pivotX, pivotY, pivotZ) ==
  /\ ~pendingEffect
  /\ LET uniqueAxes == {pivotX, pivotY, pivotZ}
     IN IF Cardinality(uniqueAxes) # 3
        THEN UNCHANGED <<rawData, cubeData, axisMapping, currentFilters, isRolledUp,
                         originalCubeDataBeforeRollUp, pendingEffect>>
        ELSE handlePivot([x |-> pivotX, y |-> pivotY, z |-> pivotZ])
  /\ lastEvent' = Event("pivot", "", <<>>, EmptyObject,
                        [x |-> pivotX, y |-> pivotY, z |-> pivotZ])
  /\ beforeRollUp' = IF Cardinality({pivotX, pivotY, pivotZ}) # 3
                     THEN beforeRollUp ELSE NoRollUp
  /\ UNCHANGED controls
  /\ UNCHANGED table

\* Variant of handleRollUp that aggregates without looking at isRolledUp.
handleRollUp_NoGuard ==
  /\ ~pendingEffect
  /\ originalCubeDataBeforeRollUp' = cubeData
  /\ cubeData' = applyRollUp(cubeData)
  /\ isRolledUp' = TRUE
  /\ beforeRollUp' = IF isRolledUp THEN beforeRollUp
                     ELSE [taken |-> TRUE, facts |-> cubeData,
                           filters |-> currentFilters, mapping |-> axisMapping]
  /\ lastEvent' = Event("rollUp", "", <<>>, EmptyObject, axisMapping)
  /\ UNCHANGED <<rawData, axisMapping, currentFilters, pendingEffect>>
  /\ UNCHANGED controls
  /\ UNCHANGED table

\* Variant of handleRollUp that clears the filter set when it aggregates.
handleRollUp_ClearsFilters ==
  /\ ~pendingEffect
  /\ IF ~isRolledUp
     THEN /\ originalCubeDataBeforeRollUp' = cubeData
          /\ cubeData' = applyRollUp(cubeData)
          /\ isRolledUp' = TRUE
          /\ currentFilters' = EmptyObject
          /\ beforeRollUp' = [taken |-> TRUE, facts |-> cubeData,
                              filters |-> currentFilters, mapping |-> axisMapping]
     ELSE UNCHANGED <<originalCubeDataBeforeRollUp, cubeData, isRolledUp,
                      currentFilters, beforeRollUp>>
  /\ lastEvent' = Event("rollUp", "", <<>>, EmptyObject, axisMapping)
  /\ UNCHANGED <<rawData, axisMapping, pendingEffect>>
  /\ UNCHANGED controls
  /\ UNCHANGED table

\* handleRollUp().
handleRollUp ==
  /\ ~pendingEffect
  /\ IF ~isRolledUp
     THEN /\ originalCubeDataBeforeRollUp' = cubeData
          /\ cubeData' = applyRollUp(cubeData)
          /\ isRolledUp' = TRUE
          /\ beforeRollUp' = [taken |-> TRUE, facts |-> cubeData,
                              filters |-> currentFilters, mapping |-> axisMapping]
     ELSE UNCHANGED <<originalCubeDataBeforeRollUp, cubeData, isRolledUp, beforeRollUp>>
  /\ lastEvent' = Event("rollUp", "", <<>>, EmptyObject, axisMapping)
  /\ UNCHANGED <<rawData, axisMapping, currentFilters, pendingEffect>>
  /\ UNCHANGED controls
  /\ UNCHANGED table

\* Variant of handleDrillDown that recomputes from the raw data when rolled up.
handleDrillDown_RecomputesWhenRolledUp ==
  /\ ~pendingEffect
  /\ IF isRolledUp
     THEN /\ cubeData' = processRawData(rawData, axisMapping)
          /\ isRolledUp' = FALSE
          /\ UNCHANGED <<currentFilters, beforeRollUp>>
     ELSE IF Cardinality(DOMAIN currentFilters) > 0
          THEN /\ currentFilters' = EmptyObject
               /\ cubeData' = processRawData(rawData, axisMapping)
               /\ beforeRollUp' = NoRollUp
               /\ UNCHANGED isRolledUp
          ELSE /\ beforeRollUp' = NoRollUp
               /\ UNCHANGED <<currentFilters, cubeData, isRolledUp>>
  /\ lastEvent' = Event("drillDown", "", <<>>, EmptyObject, axisMapping)
  /\ UNCHANGED <<rawData, axisMapping, originalCubeDataBeforeRollUp, pendingEffect>>
  /\ UNCHANGED controls
  /\ UNCHANGED table

\* Variant of handleDrillDown that clears filters by restoring the snapshot.
handleDrillDown_FiltersFromSnapshot ==
  /\ ~pendingEffect
  /\ IF isRolledUp
     THEN /\ cubeData' = originalCubeDataBeforeRollUp
          /\ isRolledUp' = FALSE
          /\ UNCHANGED <<currentFilters, beforeRollUp>>
     ELSE IF Cardinality(DOMAIN currentFilters) > 0
          THEN /\ currentFilters' = EmptyObject
               /\ cubeData' = originalCubeDataBeforeRollUp
               /\ beforeRollUp' = NoRollUp
               /\ UNCHANGED isRolledUp
          ELSE /\ beforeRollUp' = NoRollUp
               /\ UNCHANGED <<currentFilters, cubeData, isRolledUp>>
  /\ lastEvent' = Event("drillDown", "", <<>>, EmptyObject, axisMapping)
  /\ UNCHANGED <<rawData, axisMapping, originalCubeDataBeforeRollUp, pendingEffect>>
  /\ UNCHANGED controls
  /\ UNCHANGED table

\* Variant of handleDrillDown that recomputes whenever the cube is not rolled up.
handleDrillDown_NoFilterCheck ==
  /\ ~pendingEffect
  /\ IF isRolledUp
     THEN /\ cubeData' = originalCubeDataBeforeRollUp
          /\ isRolledUp' = FALSE
          /\ UNCHANGED <<currentFilters, beforeRollUp>>
     ELSE /\ currentFilters' = EmptyObject
          /\ cubeData' = processRawData(rawData, axisMapping)
          /\ beforeRollUp' = NoRollUp
          /\ UNCHANGED isRolledUp
  /\ lastEvent' = Event("drillDown", "", <<>>, EmptyObject, axisMapping)
  /\ UNCHANGED <<rawData, axisMapping, originalCubeDataBeforeRollUp, pendingEffect>>
  /\ UNCHANGED controls
  /\ UNCHANGED table

\* handleDrillDown().
handleDrillDown ==
  /\ ~pendingEffect
  /\ IF isRolledUp
     THEN /\ cubeData' = originalCubeDataBeforeRollUp
          /\ isRolledUp' = FALSE
          /\ UNCHANGED <<currentFilters, beforeRollUp>>
     ELSE IF Cardinality(DOMAIN currentFilters) > 0
          THEN /\ currentFilters' = EmptyObject
               /\ cubeData' = processRawData(rawData, axisMapping)
               /\ beforeRollUp' = NoRollUp
               /\ UNCHANGED isRolledUp
          ELSE /\ beforeRollUp' = NoRollUp
               /\ UNCHANGED <<currentFilters, cubeData, isRolledUp>>
  /\ lastEvent' = Event("drillDown", "", <<>>, EmptyObject, axisMapping)
  /\ UNCHANGED <<rawData, axisMapping, originalCubeDataBeforeRollUp, pendingEffect>>
  /\ UNCHANGED controls
  /\ UNCHANGED table

\* Variant of handleReset that expands under the mapping in force, not the default.
handleReset_CurrentMapping ==
  /\ ~pendingEffect
  /\ LET resetCube == processRawData(rawData, axisMapping)
     IN /\ axisMapping' = defaultMap
        /\ currentFilters' = EmptyObject
        /\ isRolledUp' = FALSE
        /\ cubeData' = resetCube
        /\ originalCubeDataBeforeRollUp' = resetCube
  /\ pendingEffect' = TRUE
  /\ lastEvent' = Event("reset", "", <<>>, EmptyObject, defaultMap)
  /\ beforeRollUp' = NoRollUp
  /\ UNCHANGED rawData
  /\ UNCHANGED controls
  /\ UNCHANGED table

\* handleReset(): the new mapping object schedules the effect as well.
handleReset ==
  /\ ~pendingEffect
  /\ LET resetCube == processRawData(rawData, defaultMap)
     IN /\ axisMapping' = defaultMap
        /\ currentFilters' = EmptyObject
        /\ isRolledUp' = FALSE
        /\ cubeData' = resetCube
        /\ originalCubeDataBeforeRollUp' = resetCube
  /\ pendingEffect' = TRUE
  /\ lastEvent' = Event("reset", "", <<>>, EmptyObject, defaultMap)
  /\ beforeRollUp' = NoRollUp
  /\ UNCHANGED rawData
  /\ UNCHANGED controls
  /\ UNCHANGED table

\* ------------------------------------------------------------ specification
Next ==
  \/ CubeEffect
  \/ \E newData \in DataChoices : handleDataTableChange(newData)
  \/ \E dimension \in dimensionsForSliceDice, value \in FilterValues :
       handleSlice(dimension, value)
  \/ \E filters \in DiceChoices : handleDice(filters)
  \/ \E m \in PivotChoices : handleApplyPivot(m.x, m.y, m.z)
  \/ handleRollUp
  \/ handleDrillDown
  \/ handleReset

Spec == Init /\ [][Next]_vars

\* ------------------------------------------------------------------ claims
\* The unfiltered baseline: the expansion of the raw data under the mapping.
Baseline == processRawData(rawData, axisMapping)

\* The filter set has no entry.
NoFilters == DOMAIN currentFilters = {}

\* A pivot request names three pairwise distinct axes.
DistinctAxes(m) == m.x # m.y /\ m.x # m.z /\ m.y # m.z

\* The fact stems from a row of the current raw data: its dimension values
\* and its four retained measures are those of that row.
StemsFromRaw(fact) ==
  \E i \in 1..Len(rawData) :
    \A k \in {"continent", "region", "product", "Q1", "Q2", "Q3", "Q4"} :
      Has(fact, k) /\ fact[k] = rawData[i][k]

\* C1: after every slice(d, v) or dice(F) event the facts are slice(B, d, v)
\* resp. dice(B, F) for the unfiltered baseline B of the current raw data and
\* mapping, whatever was filtered or rolled up before (stated here for a cube
\* that has rows loaded).
C1_FilterOverBaseline ==
  Len(rawData) > 0 =>
    /\ lastEvent.op = "slice" =>
         cubeData = applySlice(Baseline, lastEvent.dimension, lastEvent.value)
    /\ lastEvent.op = "dice" =>
         cubeData = applyDice(Baseline, lastEvent.filters)

\* C2: once a raw-data-changed event has completed the cube is in BASE with
\* the expansion of the new raw data, and from then on every fact of the cube
\* stems from a row of the current raw data.
C2_RawDataChanged ==
  ~pendingEffect =>
    /\ lastEvent.op = "load" =>
         cubeData = Baseline /\ NoFilters /\ ~isRolledUp
    /\ \A i \in 1..Len(cubeData) : StemsFromRaw(cubeData[i])

\* C3: a drillDown that follows a roll-up restores the facts held before the
\* roll-up, field for field, with the filter set and the axis mapping of
\* that moment, and leaves the cube not rolled up.
C3_RoundTrip ==
  (lastEvent.op = "drillDown" /\ lastEvent.wasRolledUp) =>
    /\ beforeRollUp.taken
    /\ cubeData = beforeRollUp.facts
    /\ currentFilters = beforeRollUp.filters
    /\ axisMapping = beforeRollUp.mapping
    /\ ~isRolledUp

\* C3 witness: a drillDown has restored a non-empty filtered view.
C3_Witness ==
  /\ lastEvent.op = "drillDown" /\ lastEvent.wasRolledUp
  /\ beforeRollUp.taken /\ ~NoFilters
  /\ Len(cubeData) > 0 /\ cubeData # Baseline

\* C4: a rollUp event in a state that is already rolled up changes nothing:
\* facts, snapshot, filters, rolledUp and axis mapping stay as they are.
C4_RollUpTwiceNoOp ==
  [][(~pendingEffect /\ isRolledUp /\ lastEvent'.op = "rollUp") =>
       UNCHANGED <<cubeData, originalCubeDataBeforeRollUp, currentFilters,
                   isRolledUp, axisMapping, rawData, beforeRollUp>>]_vars

\* C4 witness: a rollUp was submitted to a rolled-up cube with facts.
C4_Witness ==
  /\ lastEvent.op = "rollUp" /\ lastEvent.wasRolledUp
  /\ isRolledUp /\ Len(cubeData) > 0

\* C5: once a valid pivot has completed, the requested mapping is in force
\* and the cube is in BASE: facts are the expansion under the new mapping,
\* no filter and no roll-up are carried over.
C5_PivotRecomputes ==
  (lastEvent.op = "pivot" /\ DistinctAxes(lastEvent.mapping) /\ ~pendingEffect) =>
    /\ axisMapping = lastEvent.mapping
    /\ cubeData = processRawData(rawData, lastEvent.mapping)
    /\ NoFilters
    /\ ~isRolledUp

\* C5 witness: a valid pivot away from the default mapping has completed on
\* a cube that was filtered and rolled up, and facts are shown.
C5_Witness ==
  /\ lastEvent.op = "pivot" /\ DistinctAxes(lastEvent.mapping) /\ ~pendingEffect
  /\ lastEvent.wasRolledUp /\ lastEvent.hadFilters
  /\ axisMapping # defaultMap /\ Len(cubeData) > 0

\* C6: a pivot request whose axes are not pairwise distinct leaves the whole
\* cube state unchanged; a request with three distinct axes is accepted.
C6_PivotValidation ==
  [][(~pendingEffect /\ lastEvent'.op = "pivot") =>
       IF DistinctAxes(lastEvent'.mapping)
       THEN axisMapping' = lastEvent'.mapping
       ELSE UNCHANGED <<axisMapping, cubeData, currentFilters, isRolledUp,
                        originalCubeDataBeforeRollUp, rawData, pendingEffect>>]_vars

\* C6 witness: a degenerate request was made on a rolled-up, filtered cube.
C6_Witness ==
  /\ lastEvent.op = "pivot" /\ ~DistinctAxes(lastEvent.mapping)
  /\ isRolledUp /\ ~NoFilters /\ Len(cubeData) > 0

\* C7: a drillDown in a state that is not rolled up and has filters clears
\* the filter set and shows the expansion of the raw data under the mapping.
C7_DrillDownClearsFilters ==
  (lastEvent.op = "drillDown" /\ ~lastEvent.wasRolledUp /\ lastEvent.hadFilters) =>
    /\ NoFilters
    /\ cubeData = Baseline
    /\ ~isRolledUp

\* C7 witness: a drillDown has cleared the filters of a cube with facts.
C7_Witness ==
  /\ lastEvent.op = "drillDown" /\ ~lastEvent.wasRolledUp /\ lastEvent.hadFilters
  /\ Len(cubeData) > 0

\* C8: a drillDown in a state that is not rolled up and has no filters
\* changes nothing.
C8_DrillDownInBaseNoOp ==
  [][(~pendingEffect /\ ~isRolledUp /\ NoFilters /\ lastEvent'.op = "drillDown") =>
       UNCHANGED <<cubeData, currentFilters, isRolledUp,
                   originalCubeDataBeforeRollUp, axisMapping, rawData>>]_vars

\* C8 witness: a drillDown was submitted to an unfiltered cube with facts.
C8_Witness ==
  /\ lastEvent.op = "drillDown" /\ ~lastEvent.wasRolledUp /\ ~lastEvent.hadFilters
  /\ Len(cubeData) > 0

\* C9: after a reset the mapping is {x: continent, y: region, z: quarter},
\* there is no filter and no roll-up, and both the facts and the snapshot
\* that later slices and dices filter are the expansion under that mapping.
C9_Reset ==
  lastEvent.op = "reset" =>
    LET default == [x |-> "continent", y |-> "region", z |-> "quarter"]
    IN /\ axisMapping = default
       /\ NoFilters
       /\ ~isRolledUp
       /\ cubeData = processRawData(rawData, default)
       /\ originalCubeDataBeforeRollUp = processRawData(rawData, default)

\* C9 witness: a reset has completed on a cube that was rolled up and
\* filtered, and facts are shown.
C9_Witness ==
  /\ lastEvent.op = "reset" /\ ~pendingEffect
  /\ lastEvent.wasRolledUp /\ lastEvent.hadFilters
  /\ Len(cubeData) > 0

\* C10: in every state that is not rolled up the stored filter set describes
\* the facts shown: the facts are exactly the baseline facts that satisfy
\* every non-empty predicate of the stored filter set.
C10_FiltersDescribeFacts ==
  (~pendingEffect /\ ~isRolledUp) => cubeData = applyDice(Baseline, currentFilters)

\* ------------------------------------------------- atomicity and invariants
\* C11: after an accepted pivot or a raw-data-changed event every rendered
\* state pairs the new mapping and raw data with their own cube: the facts
\* are the expansion under them, without filters and without roll-up.
C11_AtomicRecompute ==
  ((lastEvent.op = "pivot" /\ DistinctAxes(lastEvent.mapping)) \/ lastEvent.op = "load") =>
    /\ cubeData = Baseline
    /\ NoFilters
    /\ ~isRolledUp

\* ------------------------------------------------ expansion as a function
\* Largest number of rows in the inputs of the expansion check.
MaxExpandRows == 1

\* The measure a quarter column holds when it is present.
QuarterMeasure(q) == CASE q = "Q1" -> 0 [] q = "Q2" -> 2 [] q = "Q3" -> 3 [] OTHER -> 4

\* Rows as processRawData may receive them: the X-mapped text absent, blank
\* or set, the product blank or set, any subset of the quarter columns
\* defined (undefined and null are both an absent field).
ExpandRowContents ==
  { [k \in (DC \cup {"region", "product"} \cup QS) |->
       CASE k = "continent" -> c
         [] k = "region" -> <<"b">>
         [] k = "product" -> p
         [] OTHER -> QuarterMeasure(k)] :
      DC \in {{}, {"continent"}}, c \in {<<>>, <<"A">>}, p \in {<<>>, <<"p">>},
      QS \in SUBSET {"Q1", "Q2", "Q3", "Q4"} }

\* The raw data handed to the expansion check.
ExpandInputs ==
  UNION { { [i \in 1..n |-> TableRow(i, c[i])] : c \in [1..n -> ExpandRowContents] }
          : n \in 0..MaxExpandRows }

\* The mappings the expansion check runs under.
ExpandMappings ==
  { defaultMap,
    [x |-> "region", y |-> "product", z |-> "quarter"],
    [x |-> "region", y |-> "quarter", z |-> "continent"] }

\* The history record of a state in which only the input has been chosen.
InputEvent ==
  [op |-> "input", dimension |-> "", value |-> <<>>, filters |-> EmptyObject,
   mapping |-> defaultMap, wasRolledUp |-> FALSE, hadFilters |-> FALSE]

\* The App with raw data and a mapping set and the effect about to expand them.
InitExpand ==
  /\ rawData \in ExpandInputs
  /\ axisMapping \in ExpandMappings
  /\ cubeData = <<>>
  /\ currentFilters = EmptyObject
  /\ isRolledUp = FALSE
  /\ originalCubeDataBeforeRollUp = <<>>
  /\ pendingEffect = TRUE
  /\ lastEvent = InputEvent
  /\ beforeRollUp = NoRollUp
  /\ InitControls
  /\ InitTable

NextExpand == CubeEffect

SpecExpand == InitExpand /\ [][NextExpand]_vars

\* The row has no value for the dimension: the property is absent or blank.
Lacks(row, dimension) == ~Has(row, dimension) \/ row[dimension] = <<>>

\* The id processRawData gives the fact of a row and a quarter.
FactId(row, q) == NumStr(row.id) \o <<"-">> \o QuarterStr(q)

\* The facts of the cube that carry the id of the row and the quarter.
FactsFor(row, q) == SelectSeq(cubeData, LAMBDA f : f.id = FactId(row, q))

\* No fact of the cube comes from the row.
Skipped(row) == \A q \in {"Q1", "Q2", "Q3", "Q4"} : FactsFor(row, q) = <<>>

\* The facts of the row carry its three dimension values as they are.
CarriesDimensions(row) ==
  \A q \in {"Q1", "Q2", "Q3", "Q4"} :
    \A j \in 1..Len(FactsFor(row, q)) :
      \A d \in {"continent", "region", "product"} :
        Has(row, d) => Has(FactsFor(row, q)[j], d) /\ FactsFor(row, q)[j][d] = row[d]

\* C14: a row that lacks a value (absent or blank) for the X- or Y-mapped
\* dimension yields no fact; any other row yields one fact per quarter column
\* that is defined (0 included), with that quarter's measure as value, and
\* the expansion holds no other fact.
C14_ExpansionCount ==
  ~pendingEffect =>
    /\ \A i \in 1..Len(rawData) : \A q \in {"Q1", "Q2", "Q3", "Q4"} :
         LET row == rawData[i]
             emitted == ~Lacks(row, axisMapping.x) /\ ~Lacks(row, axisMapping.y)
                          /\ Has(row, q)
         IN /\ Len(FactsFor(row, q)) = IF emitted THEN 1 ELSE 0
            /\ emitted => FactsFor(row, q)[1].value = row[q]
    /\ \A j \in 1..Len(cubeData) :
         \E i \in 1..Len(rawData) : \E q \in {"Q1", "Q2", "Q3", "Q4"} :
           cubeData[j].id = FactId(rawData[i], q)

\* C14 witness: a row with Q1 = 0 and without Q4 has been expanded.
C14_Witness ==
  /\ ~pendingEffect /\ Len(rawData) > 0
  /\ Has(rawData[1], "Q1") /\ rawData[1].Q1 = 0 /\ ~Has(rawData[1], "Q4")
  /\ Len(cubeData) > 0

\* C15 as stated: a row that has a value, blank or not, for the X- and the
\* Y-mapped dimension is expanded into facts that carry its values; only
\* rows without any value there are skipped.
C15_BlankTolerated ==
  ~pendingEffect =>
    \A i \in 1..Len(rawData) :
      LET row == rawData[i]
      IN (Has(row, axisMapping.x) /\ Has(row, axisMapping.y)
            /\ \E q \in {"Q1", "Q2", "Q3", "Q4"} : Has(row, q))
           => ~Skipped(row) /\ CarriesDimensions(row)

\* C15 amended: a blank in a dimension that is not mapped to X or Y is
\* carried into the facts; a row is skipped exactly when its X- or Y-mapped
\* dimension is blank or absent.
C15_BlankSkippedOnAxes ==
  ~pendingEffect =>
    \A i \in 1..Len(rawData) :
      LET row == rawData[i]
      IN (\E q \in {"Q1", "Q2", "Q3", "Q4"} : Has(row, q)) =>
           /\ Skipped(row) <=> (Lacks(row, axisMapping.x) \/ Lacks(row, axisMapping.y))
           /\ CarriesDimensions(row)

\* C15 witness: a row with a blank product has been expanded into facts
\* with the blank product.
C15_Witness ==
  /\ ~pendingEffect /\ Len(rawData) > 0 /\ Len(cubeData) > 0
  /\ rawData[1].product = <<>> /\ cubeData[1].product = <<>>

\* --------------------------------------------------- roll-up as a function
\* Largest number of facts in the inputs of the roll-up and filter checks.
MaxFacts == 3

\* Facts as expansion produces them, from rows whose texts contain '-'.
RollUpFacts ==
  { ExpandedFact(TableRow(r.id, r.content), q) :
      r \in { [id |-> 1, content |->
                 [continent |-> <<"a", "-", "b">>, region |-> <<"c">>,
                  product |-> <<"p">>, Q1 |-> 1, Q2 |-> 2, Q3 |-> 3, Q4 |-> 4]],
              [id |-> 2, content |->
                 [continent |-> <<"a">>, region |-> <<"b", "-", "c">>,
                  product |-> <<"p">>, Q1 |-> 5, Q2 |-> 6, Q3 |-> 7, Q4 |-> 8]],
              [id |-> 3, content |->
                 [continent |-> <<"a">>, region |-> <<"c">>,
                  product |-> <<"p">>, Q1 |-> 9, Q2 |-> 10, Q3 |-> 11, Q4 |-> 12]] },
      q \in {"Q1", "Q2"} }

\* The fact collections handed to the roll-up check, in every order.
RollUpInputs == UNION { [1..n -> RollUpFacts] : n \in 0..MaxFacts }

\* The App showing a fact collection that is not rolled up.
InitRollUp ==
  /\ cubeData \in RollUpInputs
  /\ originalCubeDataBeforeRollUp = cubeData
  /\ rawData = <<>>
  /\ axisMapping = defaultMap
  /\ currentFilters = EmptyObject
  /\ isRolledUp = FALSE
  /\ pendingEffect = FALSE
  /\ lastEvent = InputEvent
  /\ beforeRollUp = NoRollUp
  /\ InitControls
  /\ InitTable

NextRollUp == handleRollUp

SpecRollUp == InitRollUp /\ [][NextRollUp]_vars

\* The (continent, region, product) triple of a fact.
Triple(f) == <<f.continent, f.region, f.product>>

\* The triples that occur in a fact collection.
Triples(S) == { Triple(S[i]) : i \in 1..Len(S) }

RECURSIVE SumValue(_)
\* The sum of value over a fact collection.
SumValue(S) == IF S = <<>> THEN 0 ELSE Head(S).value + SumValue(Tail(S))

\* C12: for every triple occurring in the collection S that was rolled up,
\* the rolled-up collection has a fact for that triple, and a fact for that
\* triple has Total equal to the sum of value over the facts of S with that
\* triple, whatever the order of S.
C12_RollUpTotals ==
  (isRolledUp /\ beforeRollUp.taken) =>
    \A t \in Triples(beforeRollUp.facts) :
      /\ \E j \in 1..Len(cubeData) : Triple(cubeData[j]) = t
      /\ \A j \in 1..Len(cubeData) :
           Triple(cubeData[j]) = t =>
             cubeData[j].Total =
               SumValue(SelectSeq(beforeRollUp.facts, LAMBDA f : Triple(f) = t))

\* C13: the rolled-up collection holds exactly one fact per distinct triple
\* of S, each with quarter = 'Total'.
C13_OneFactPerTriple ==
  (isRolledUp /\ beforeRollUp.taken) =>
    /\ \A t \in Triples(beforeRollUp.facts) :
         Len(SelectSeq(cubeData, LAMBDA f : Triple(f) = t)) = 1
    /\ Len(cubeData) = Cardinality(Triples(beforeRollUp.facts))
    /\ \A j \in 1..Len(cubeData) : cubeData[j].quarter = <<"T", "o", "t", "a", "l">>

\* --------------------------------------------------- filters as functions
\* Facts as expansion produces them, with mixed-case and blank texts.
FilterFacts ==
  { ExpandedFact(TableRow(r.id, r.content), r.q) :
      r \in { [id |-> 1, q |-> "Q1", content |->
                 [continent |-> <<"A", "b">>, region |-> <<"b">>,
                  product |-> <<"p">>, Q1 |-> 1, Q2 |-> 2, Q3 |-> 3, Q4 |-> 4]],
              [id |-> 1, q |-> "Q2", content |->
                 [continent |-> <<"A", "b">>, region |-> <<"b">>,
                  product |-> <<"p">>, Q1 |-> 1, Q2 |-> 2, Q3 |-> 3, Q4 |-> 4]],
              [id |-> 2, q |-> "Q1", content |->
                 [continent |-> <<"a">>, region |-> <<"P">>,
                  product |-> <<>>, Q1 |-> 5, Q2 |-> 6, Q3 |-> 7, Q4 |-> 8]] } }

\* The fact collections handed to the filter check.
FilterInputs == UNION { [1..n -> FilterFacts] : n \in 0..MaxFacts }

\* The dimension arguments of the slice check: none, the three texts, quarter.
SliceDimensionInputs == {"", "continent", "region", "product", "quarter"}

\* The value arguments of the filter check.
FilterTexts == { <<>>, <<"A">>, <<"B">> }

\* The filter maps of the dice check: empty values are kept in the map.
DiceInputs == UNION { [D -> FilterTexts] : D \in SUBSET dimensionsForSliceDice }

\* The App holding a fact collection as the baseline that filters apply to.
InitFilter ==
  /\ originalCubeDataBeforeRollUp \in FilterInputs
  /\ cubeData = originalCubeDataBeforeRollUp
  /\ rawData = <<>>
  /\ axisMapping = defaultMap
  /\ currentFilters = EmptyObject
  /\ isRolledUp = FALSE
  /\ pendingEffect = FALSE
  /\ lastEvent = InputEvent
  /\ beforeRollUp = NoRollUp
  /\ InitControls
  /\ InitTable

\* One filter call on the collection chosen.
NextFilter ==
  \/ \E dimension \in SliceDimensionInputs, value \in FilterTexts :
       lastEvent.op = "input" /\ handleSlice(dimension, value)
  \/ \E filters \in DiceInputs :
       lastEvent.op = "input" /\ handleDice(filters)

SpecFilter == InitFilter /\ [][NextFilter]_vars

\* The elements of a sequence.
Range(S) == { S[i] : i \in 1..Len(S) }

\* C16: dice(S, F) keeps exactly the facts of S that every slice(S, d, v)
\* keeps, for the entries (d, v) of F with non-empty v; with a single such
\* entry it equals that slice.
C16_DiceIsIntersection ==
  lastEvent.op = "dice" =>
    LET S == originalCubeDataBeforeRollUp
        F == lastEvent.filters
        active == { d \in DOMAIN F : F[d] # <<>> }
    IN /\ cubeData = SelectSeq(S, LAMBDA f :
                       \A d \in active : f \in Range(applySlice(S, d, F[d])))
       /\ \A d \in active : active = {d} => cubeData = applySlice(S, d, F[d])

\* C16 witness: a dice with two active filters kept some facts and dropped
\* others.
C16_Witness ==
  /\ lastEvent.op = "dice"
  /\ Cardinality({ d \in DOMAIN lastEvent.filters : lastEvent.filters[d] # <<>> }) = 2
  /\ Len(cubeData) > 0
  /\ Len(cubeData) < Len(originalCubeDataBeforeRollUp)

\* C17: slice(S, d, '') = S, slice(S, '', v) = S, dice(S, {}) = S and
\* dice(S, F) = S when every value of F is empty.
C17_FilterIdentity ==
  /\ (lastEvent.op = "slice" /\ (lastEvent.value = <<>> \/ lastEvent.dimension = "")) =>
       cubeData = originalCubeDataBeforeRollUp
  /\ (lastEvent.op = "dice"
        /\ \A d \in DOMAIN lastEvent.filters : lastEvent.filters[d] = <<>>) =>
       cubeData = originalCubeDataBeforeRollUp

\* C17 witness: a slice without a dimension but with a value was applied to
\* a collection that has facts.
C17_Witness ==
  /\ lastEvent.op = "slice" /\ lastEvent.dimension = "" /\ lastEvent.value # <<>>
  /\ Len(originalCubeDataBeforeRollUp) > 0

\* Two characters are the same letter, whatever their case.
SameLetter(a, b) == a = b \/ LowerChar(a) = b \/ a = LowerChar(b)

\* v occurs in s as a substring when case is ignored.
ContainsIgnoringCase(s, v) ==
  \E off \in 0..(Len(s) - Len(v)) :
    \A j \in 1..Len(v) : SameLetter(s[off + j], v[j])

\* C18: for non-empty d and v, slice(S, d, v) is S restricted, in order and
\* unmodified, to the facts whose stringified d-field contains v when case
\* is ignored.
C18_SliceKeepsMatches ==
  (lastEvent.op = "slice" /\ lastEvent.dimension # "" /\ lastEvent.value # <<>>) =>
    cubeData = SelectSeq(originalCubeDataBeforeRollUp, LAMBDA f :
                 ContainsIgnoringCase(StringOf(f, lastEvent.dimension), lastEvent.value))

\* C18 witness: a slice by an upper-case letter kept facts whose text has it
\* in lower case inside a longer text, and dropped others.
C18_Witness ==
  /\ lastEvent.op = "slice" /\ lastEvent.dimension = "continent"
  /\ lastEvent.value = <<"B">>
  /\ Len(cubeData) > 0
  /\ Len(cubeData) < Len(originalCubeDataBeforeRollUp)

\* --------------------------------------------------------- cube invariants
\* C19: in every state the axis mapping assigns three pairwise distinct
\* dimensions to x, y and z.
C19_AxesDistinct ==
  /\ axisMapping.x # axisMapping.y
  /\ axisMapping.x # axisMapping.z
  /\ axisMapping.y # axisMapping.z

\* C19 witness: a degenerate pivot request was made after an earlier pivot
\* had moved the mapping away from the default.
C19_Witness ==
  /\ lastEvent.op = "pivot" /\ ~DistinctAxes(lastEvent.mapping)
  /\ axisMapping # defaultMap

\* C20: every fact of the cube has quarter in {Q1, Q2, Q3, Q4, Total}; a
\* quarter fact has value equal to its own measure for that quarter and no
\* Total; a Total fact has no value and has a Total; both retain Q1..Q4.
C20_FactWellFormed ==
  \A j \in 1..Len(cubeData) :
    LET f == cubeData[j]
    IN /\ {"Q1", "Q2", "Q3", "Q4", "quarter"} \subseteq DOMAIN f
       /\ \/ /\ \E q \in {"Q1", "Q2", "Q3", "Q4"} :
                  f.quarter = QuarterStr(q) /\ "value" \in DOMAIN f /\ f.value = f[q]
             /\ "Total" \notin DOMAIN f
          \/ /\ f.quarter = <<"T", "o", "t", "a", "l">>
             /\ "value" \notin DOMAIN f
             /\ "Total" \in DOMAIN f

\* C20 witness: a rolled-up cube with facts.
C20_Witness == isRolledUp /\ ~pendingEffect /\ Len(cubeData) > 0

\* --------------------------------------------------- empty results, liveness
\* The cube is FILTERED and shows no fact: the last slice or dice matched none.
EmptyFiltered ==
  /\ ~pendingEffect /\ ~isRolledUp /\ ~NoFilters
  /\ lastEvent.op \in {"slice", "dice"}
  /\ cubeData = <<>>

\* Every event of the App is accepted in the current state.
EveryEventAccepted ==
  /\ ENABLED (\E newData \in DataChoices : handleDataTableChange(newData))
  /\ ENABLED (\E dimension \in dimensionsForSliceDice, value \in FilterValues :
                handleSlice(dimension, value))
  /\ ENABLED (\E filters \in DiceChoices : handleDice(filters))
  /\ ENABLED (\E m \in PivotChoices : handleApplyPivot(m.x, m.y, m.z))
  /\ ENABLED handleRollUp
  /\ ENABLED handleDrillDown
  /\ ENABLED handleReset

\* C21: a slice or dice that matches no fact leaves a FILTERED state with an
\* empty fact collection in which every event is still accepted; a rollUp of
\* that empty cube gives an empty rolled-up cube, and a drillDown from it
\* returns the cube to BASE with the expansion of the raw data.
C21_EmptyResultIsValid ==
  /\ [](EmptyFiltered => EveryEventAccepted)
  /\ [][(EmptyFiltered /\ lastEvent'.op = "rollUp") =>
          cubeData' = <<>> /\ isRolledUp']_vars
  /\ [][(EmptyFiltered /\ lastEvent'.op = "drillDown") =>
          cubeData' = Baseline' /\ NoFilters' /\ ~isRolledUp']_vars

\* C21 witness: a slice or dice has matched none of the facts of a cube
\* whose raw data expand to facts.
C21_Witness == EmptyFiltered /\ Len(Baseline) > 0

\* The cube is in BASE and shows the expansion of the raw data.
BaseState == ~isRolledUp /\ NoFilters /\ cubeData = Baseline

\* The events that lead back to BASE are accepted: reset, a pivot to three
\* distinct axes (which takes the requested mapping), and a load.
RecoveryAccepted ==
  /\ ENABLED handleReset
  /\ ENABLED (\E m \in PivotChoices :
                /\ DistinctAxes(m)
                /\ handleApplyPivot(m.x, m.y, m.z)
                /\ axisMapping' = m)
  /\ ENABLED (\E newData \in DataChoices :
                handleDataTableChange(newData) /\ rawData' = newData)

\* C22: no state is terminal.  A scheduled recompute can always run; in every
\* other state reset, a valid pivot and a load are accepted; a reset puts the
\* cube in BASE at once and every recompute ends in BASE, so that BASE with
\* the expansion of the raw data is reachable from every reachable state.
C22_NoStuckState ==
  /\ [](IF pendingEffect THEN ENABLED CubeEffect ELSE RecoveryAccepted)
  /\ [][(~pendingEffect /\ lastEvent'.op = "reset") => BaseState']_vars
  /\ [][(pendingEffect /\ ~pendingEffect') => BaseState']_vars

\* C22 witness: a reset was accepted by a rolled-up, filtered cube that
\* showed no fact, and the cube is back in BASE with facts.
C22_Witness ==
  /\ lastEvent.op = "reset" /\ lastEvent.wasRolledUp /\ lastEvent.hadFilters
  /\ beforeRollUp = NoRollUp /\ pendingEffect
  /\ BaseState /\ Len(cubeData) > 0

\* ------------------------------------------------------------ state invariants
\* The filter set has no non-empty predicate.
NoActivePredicate == \A d \in DOMAIN currentFilters : currentFilters[d] = <<>>

\* C23: in every state in which the event and its recompute have completed,
\* the cube is not rolled up and the filter set has no non-empty predicate,
\* the facts are the expansion of the current raw data under the current
\* mapping (stated here for a cube that has rows loaded).
C23_BaseInvariant ==
  (~pendingEffect /\ ~isRolledUp /\ NoActivePredicate /\ Len(rawData) > 0) =>
    cubeData = Baseline

\* C24: in every rolled-up state the facts are the roll-up of the snapshot,
\* and the snapshot is the collection shown just before the roll-up event:
\* the filtered collection when the cube was FILTERED, the expansion of the
\* raw data when it had no filter (stated here for a cube that has rows
\* loaded).
C24_SnapshotConsistency ==
  (isRolledUp /\ ~pendingEffect /\ Len(rawData) > 0) =>
    /\ cubeData = applyRollUp(originalCubeDataBeforeRollUp)
    /\ beforeRollUp.taken
    /\ originalCubeDataBeforeRollUp = beforeRollUp.facts
    /\ beforeRollUp.filters = EmptyObject =>
         originalCubeDataBeforeRollUp = Baseline

\* Every fact shown carries the quarter 'Total'.
AllTotal == \A i \in 1..Len(cubeData) : cubeData[i].quarter = TotalStr

\* Every fact shown carries one of the quarters Q1..Q4.
AllQuarterly ==
  \A i \in 1..Len(cubeData) :
    \E q \in {"Q1", "Q2", "Q3", "Q4"} : cubeData[i].quarter = QuarterStr(q)

\* C25: after every completed event the rolledUp flag agrees with the facts:
\* rolled up, every fact has quarter 'Total'; not rolled up, every fact has a
\* quarter among Q1..Q4.
C25_FlagAgreesWithFacts ==
  ~pendingEffect => IF isRolledUp THEN AllTotal ELSE AllQuarterly

\* C25 witness: a slice of a rolled-up cube has completed and shows facts.
C25_Witness ==
  /\ ~pendingEffect /\ ~isRolledUp
  /\ lastEvent.op = "slice" /\ lastEvent.wasRolledUp
  /\ Len(cubeData) > 0

\* ------------------------------------------------- the controls and the cube
\* setSliceDimension(e.target.value): the slice dimension is selected.
setSliceDimension(dimension) ==
  /\ ~pendingEffect
  /\ sliceDimension' = dimension
  /\ UNCHANGED <<rawData, cubeData, axisMapping, currentFilters, isRolledUp,
                 originalCubeDataBeforeRollUp, pendingEffect, lastEvent,
                 beforeRollUp, sliceValue, diceFilters>>
  /\ UNCHANGED table

\* setSliceValue(e.target.value): text is typed into the slice input.
setSliceValue(value) ==
  /\ ~pendingEffect
  /\ sliceValue' = value
  /\ UNCHANGED <<rawData, cubeData, axisMapping, currentFilters, isRolledUp,
                 originalCubeDataBeforeRollUp, pendingEffect, lastEvent,
                 beforeRollUp, sliceDimension, diceFilters>>
  /\ UNCHANGED table

\* handleDiceFilterChange(dimension, value): text is typed into a dice input.
handleDiceFilterChange(dimension, value) ==
  /\ ~pendingEffect
  /\ diceFilters' = [d \in DOMAIN diceFilters \cup {dimension} |->
                       IF d = dimension THEN value ELSE diceFilters[d]]
  /\ UNCHANGED <<rawData, cubeData, axisMapping, currentFilters, isRolledUp,
                 originalCubeDataBeforeRollUp, pendingEffect, lastEvent,
                 beforeRollUp, sliceDimension, sliceValue>>
  /\ UNCHANGED table

\* The Apply Slice button: onSlice(sliceDimension, sliceValue).
ApplySlice == handleSlice(sliceDimension, sliceValue)

\* handleApplyDice(): onDice with the dice inputs that are not blank.
handleApplyDice ==
  LET active == { d \in DOMAIN diceFilters : diceFilters[d] # <<>> }
      activeFilters == [d \in active |-> diceFilters[d]]
  IN handleDice(activeFilters)

\* The disabled attribute of the Roll-up button.
RollUpDisabled == isRolledUp

\* The disabled attribute of the Drill-down button.
DrillDownDisabled ==
  /\ ~isRolledUp
  /\ \A d \in DOMAIN diceFilters : diceFilters[d] = <<>>
  /\ sliceValue = <<>>

\* The Roll-up button: onRollUp, unless the button is disabled.
RollUpButton == ~RollUpDisabled /\ handleRollUp

\* The Drill-down button: onDrillDown, unless the button is disabled.
DrillDownButton == ~DrillDownDisabled /\ handleDrillDown

\* The tables loaded while the controls are exercised: at most one row.
ControlsTables == { t \in DataChoices : Len(t) <= 1 }

\* The dice inputs typed into while the controls are exercised.
ControlsDiceInputs == {"continent", "region"}

\* The axis selections applied while the controls are exercised.
ControlsPivots ==
  { defaultMap,
    [x |-> "region", y |-> "product", z |-> "quarter"],
    [x |-> "region", y |-> "region", z |-> "quarter"] }

NextControls ==
  \/ CubeEffect
  \/ \E newData \in ControlsTables : handleDataTableChange(newData)
  \/ \E dimension \in dimensionsForSliceDice : setSliceDimension(dimension)
  \/ \E value \in FilterValues : setSliceValue(value)
  \/ \E dimension \in ControlsDiceInputs, value \in FilterValues :
       handleDiceFilterChange(dimension, value)
  \/ ApplySlice
  \/ handleApplyDice
  \/ \E m \in ControlsPivots : handleApplyPivot(m.x, m.y, m.z)
  \/ RollUpButton
  \/ DrillDownButton
  \/ handleReset

\* The App with its controls: the events are the ones the controls can submit.
SpecControls == Init /\ [][NextControls]_vars

\* C26: the Drill-down button is disabled exactly when the cube is not rolled
\* up and no filter is applied to it, whatever text the slice and dice inputs
\* hold (stated here for the states in which the applied filter set is empty
\* or has a non-empty predicate).
C26_DrillDownDisabledIffBase ==
  (~pendingEffect /\ (NoFilters \/ ~NoActivePredicate)) =>
    (DrillDownDisabled <=> (~isRolledUp /\ NoFilters))

\* C27: a rollUp from a state that is not rolled up changes the facts, the
\* rolledUp flag and the snapshot only: filters, axis mapping and raw data
\* stay, and no recompute is scheduled.  While the cube is rolled up the
\* filter set is the one of the roll-up, and it is still in force after the
\* drillDown that undoes the roll-up.
C27_FiltersFrozen ==
  /\ [][(~pendingEffect /\ ~isRolledUp /\ lastEvent'.op = "rollUp") =>
          /\ UNCHANGED <<currentFilters, axisMapping, rawData, pendingEffect>>
          /\ isRolledUp'
          /\ originalCubeDataBeforeRollUp' = cubeData]_vars
  /\ []((isRolledUp /\ beforeRollUp.taken) => currentFilters = beforeRollUp.filters)
  /\ [][(~pendingEffect /\ isRolledUp /\ lastEvent'.op = "drillDown") =>
          /\ beforeRollUp.taken
          /\ currentFilters' = beforeRollUp.filters
          /\ ~isRolledUp']_vars

\* C27 witness: a drillDown has undone a roll-up made with two filters in
\* force, and both are still in force.
C27_Witness ==
  /\ lastEvent.op = "drillDown" /\ lastEvent.wasRolledUp
  /\ beforeRollUp.taken /\ currentFilters = beforeRollUp.filters
  /\ Cardinality(DOMAIN currentFilters) = 2

\* The raw rows that carry the (continent, region, product) triple of a fact.
RowsWithTriple(f) ==
  { r \in 1..Len(rawData) :
      \A k \in {"continent", "region", "product"} : rawData[r][k] = f[k] }

\* C28: for every table the data table can hand over, each fact of the
\* rolled-up unfiltered baseline belongs to exactly one raw row, the one with
\* its (continent, region, product) triple; it retains the Q1..Q4 of that row
\* and its Total is the sum of the four measures it retains.
C28_TripleIdentifiesRow ==
  (~pendingEffect /\ isRolledUp /\ beforeRollUp.taken
     /\ beforeRollUp.filters = EmptyObject /\ beforeRollUp.facts = Baseline) =>
    \A i \in 1..Len(cubeData) :
      LET f == cubeData[i]
      IN /\ \E r \in RowsWithTriple(f) :
              \A q \in {"Q1", "Q2", "Q3", "Q4"} : f[q] = rawData[r][q]
         /\ f.Total = f.Q1 + f.Q2 + f.Q3 + f.Q4
         /\ Cardinality(RowsWithTriple(f)) = 1

\* ------------------------------------------------------------- the renderer
\* Size of one block of the 3D cube.
CUBE_SIZE == 3

\* Space between adjacent blocks.
SPACING == 1

\* The UTF-16 code unit of a character (the characters the inputs use).
charCodeAt(c) ==
  CASE c = "-" -> 45
    [] c = "0" -> 48 [] c = "1" -> 49 [] c = "2" -> 50 [] c = "3" -> 51
    [] c = "4" -> 52 [] c = "5" -> 53 [] c = "6" -> 54 [] c = "7" -> 55
    [] c = "8" -> 56 [] c = "9" -> 57
    [] c = "A" -> 65 [] c = "B" -> 66 [] c = "P" -> 80 [] c = "Q" -> 81
    [] c = "T" -> 84
    [] c = "a" -> 97 [] c = "b" -> 98 [] c = "l" -> 108 [] c = "o" -> 111
    [] c = "p" -> 112 [] c = "t" -> 116

\* The order Array.prototype.sort() puts two different strings in: s before t.
SortsBefore(s, t) ==
  \E k \in 0..Len(s) :
    /\ k <= Len(t)
    /\ \A i \in 1..k : s[i] = t[i]
    /\ \/ k = Len(s) /\ k < Len(t)
       \/ k < Len(s) /\ k < Len(t) /\ charCodeAt(s[k + 1]) < charCodeAt(t[k + 1])

\* The defined values among getUniqueValues(data, dimension).
DefinedValues(data, dimension) ==
  { data[i][dimension] : i \in { j \in 1..Len(data) : Has(data[j], dimension) } }

\* getUniqueValues(data, dimension).length: undefined counts as one value.
UniqueCount(data, dimension) ==
  Cardinality(DefinedValues(data, dimension))
    + (IF \E i \in 1..Len(data) : ~Has(data[i], dimension) THEN 1 ELSE 0)

\* xIndices.get(item[dimension]): the 0-based place of the item's value in
\* the sorted unique values; sort() puts undefined last.
IndexOfValue(data, dimension, item) ==
  IF Has(item, dimension)
  THEN Cardinality({ v \in DefinedValues(data, dimension) :
                       SortsBefore(v, item[dimension]) })
  ELSE Cardinality(DefinedValues(data, dimension))

\* zVals: the fixed domain of the quarter axis.
zValues == <<QuarterStr("Q1"), QuarterStr("Q2"), QuarterStr("Q3"), QuarterStr("Q4"),
             TotalStr>>

\* zIndices.get(name): the 0-based place of a name in zValues.
zIndexOf(name) == (CHOOSE i \in 1..Len(zValues) : zValues[i] = name) - 1

\* offsetX, offsetY, offsetZ for an axis of n values: -width / 2 + CUBE_SIZE / 2
\* (the sum is even, so the division is exact).
AxisOffset(n) == (-(n * (CUBE_SIZE + SPACING) - SPACING) + CUBE_SIZE) \div 2

\* posX, posY, posZ of the block at index idx of an axis of n values.
AxisPosition(idx, n) == idx * (CUBE_SIZE + SPACING) + AxisOffset(n)

\* The group pushed for an item at the place of name on the quarter axis,
\* labelled with measure.toFixed(0).
Block(data, mapping, item, name, measure) ==
  [key |-> item.id \o <<"-">> \o name,
   position |->
     <<AxisPosition(IndexOfValue(data, mapping.x, item), UniqueCount(data, mapping.x)),
       AxisPosition(IndexOfValue(data, mapping.y, item), UniqueCount(data, mapping.y)),
       AxisPosition(zIndexOf(name), Len(zValues))>>,
   label |-> NumStr(measure)]

RECURSIVE QuarterBlocks(_, _, _, _)
\* quarters.forEach: a block for every quarter column the item carries.
QuarterBlocks(data, mapping, item, i) ==
  IF i > Len(Quarters) THEN <<>>
  ELSE (IF Has(item, Quarters[i])
        THEN <<Block(data, mapping, item, QuarterStr(Quarters[i]), item[Quarters[i]])>>
        ELSE <<>>)
         \o QuarterBlocks(data, mapping, item, i + 1)

\* The blocks of one item: its quarter blocks, or a 'Total' block when it has
\* a Total and no quarter column.
ItemBlocks(data, mapping, item) ==
  LET hasQuarters == \E q \in {"Q1", "Q2", "Q3", "Q4"} : Has(item, q)
  IN QuarterBlocks(data, mapping, item, 1)
       \o (IF Has(item, "Total") /\ ~hasQuarters
           THEN <<Block(data, mapping, item, TotalStr, item.Total)>>
           ELSE <<>>)

RECURSIVE BlocksFrom(_, _, _)
\* data.forEach from item i on.
BlocksFrom(data, mapping, i) ==
  IF i > Len(data) THEN <<>>
  ELSE ItemBlocks(data, mapping, data[i]) \o BlocksFrom(data, mapping, i + 1)

\* cubeBlocks of ThreeDCube({ data, axisMapping }).
cubeBlocks(data, mapping) == BlocksFrom(data, mapping, 1)

\* The blocks the App shows: <ThreeDCube data={cubeData} axisMapping={axisMapping} />.
RenderedBlocks == cubeBlocks(cubeData, axisMapping)

\* The measure a fact stands for: Total when rolled up, value otherwise.
MeasureOf(fact) == IF fact.quarter = TotalStr THEN fact.Total ELSE fact.value

\* C29: the renderer derives exactly one block per fact of the cube, in the
\* order of the facts: the block sits at the place of the fact's quarter in
\* [Q1, Q2, Q3, Q4, Total] and is labelled with the fact's measure (value for
\* a quarter fact, Total for a rolled-up fact).
C29_OneBlockPerFact ==
  ~pendingEffect =>
    /\ Len(RenderedBlocks) = Len(cubeData)
    /\ \A i \in 1..Len(cubeData) :
         /\ RenderedBlocks[i].position[3] =
              AxisPosition(zIndexOf(cubeData[i].quarter), Len(zValues))
         /\ RenderedBlocks[i].label = NumStr(MeasureOf(cubeData[i]))

\* ------------------------------------------------------- order of expansion
\* The fact is the one expanded from row r of the raw data for quarter
\* number qi, with the dimension values and measures of that row.
ExpandedFrom(fact, r, qi) ==
  /\ fact.id = FactId(rawData[r], Quarters[qi])
  /\ fact.quarter = QuarterStr(Quarters[qi])
  /\ fact.value = rawData[r][Quarters[qi]]
  /\ \A k \in {"continent", "region", "product"} : fact[k] = rawData[r][k]

\* The place of a fact in the order of the raw rows and, within one row, of
\* the quarters Q1, Q2, Q3, Q4; 0 for a fact that no row expands to.
PlaceInInput(fact) ==
  LET places == { k \in 1..(4 * Len(rawData)) :
                    ExpandedFrom(fact, ((k - 1) \div 4) + 1, ((k - 1) % 4) + 1) }
  IN IF places = {} THEN 0 ELSE CHOOSE k \in places : TRUE

\* The facts are listed in the order of the raw rows and, within one row, in
\* the order Q1, Q2, Q3, Q4.
InInputOrder(facts) ==
  /\ \A a \in 1..Len(facts) : PlaceInInput(facts[a]) > 0
  /\ \A a \in 1..(Len(facts) - 1) :
       PlaceInInput(facts[a]) < PlaceInInput(facts[a + 1])

\* C30: the expansion lists its facts in the order of the input rows and,
\* within a row, in the order Q1, Q2, Q3, Q4; the recompute that runs it
\* shows exactly processRawData(rawData, axisMapping), whatever the cube held
\* before, and leaves the raw rows as they were.
C30_ExpansionOrdered ==
  [][(pendingEffect /\ ~pendingEffect') =>
       /\ rawData' = rawData
       /\ cubeData' = processRawData(rawData, axisMapping)
       /\ InInputOrder(cubeData')]_vars

\* C30 witness: two different rows have been loaded and expanded, four facts
\* each, under a mapping other than the default one.
C30_Witness ==
  /\ ~pendingEffect /\ lastEvent.op = "load"
  /\ Len(rawData) = 2 /\ rawData[1].region # rawData[2].region
  /\ axisMapping # defaultMap
  /\ Len(cubeData) = 8

\* ------------------------------------------------------------ the data table
\* Largest number of rows the table holds while it is exercised.
MaxTableRows == 2

\* Largest id the table hands out while it is exercised.
MaxRowId == 3

\* The value of a decimal digit character.
DigitValue(c) == CHOOSE d \in 0..9 : Digit(d) = c

RECURSIVE parseDigits(_)
\* parseFloat on a text of decimal digits.
parseDigits(text) ==
  IF Len(text) = 1 THEN DigitValue(text[1])
  ELSE 10 * parseDigits(SubSeq(text, 1, Len(text) - 1)) + DigitValue(text[Len(text)])

\* field.startsWith('Q') ? parseFloat(newValue) || 0 : newValue, for a text
\* that is blank (parseFloat gives NaN) or made of digits.
CellValue(field, newValue) ==
  IF field \in {"Q1", "Q2", "Q3", "Q4"}
  THEN (IF newValue = <<>> THEN 0 ELSE parseDigits(newValue))
  ELSE newValue

\* Math.max(...tableData.map(row => row.id)).
MaxIdOf(rows) ==
  CHOOSE m \in { rows[i].id : i \in 1..Len(rows) } :
    \A i \in 1..Len(rows) : rows[i].id <= m

\* handleInputChange(e, id, field): a cell of the row with that id is edited.
handleInputChange(id, field, newValue) ==
  /\ ~pendingEffect
  /\ tableData' = [i \in 1..Len(tableData) |->
                     IF tableData[i].id = id
                     THEN [k \in DOMAIN tableData[i] \cup {field} |->
                             IF k = field THEN CellValue(field, newValue)
                             ELSE tableData[i][k]]
                     ELSE tableData[i]]
  /\ UNCHANGED newRow
  /\ UNCHANGED <<rawData, cubeData, axisMapping, currentFilters, isRolledUp,
                 originalCubeDataBeforeRollUp, pendingEffect, lastEvent, beforeRollUp>>
  /\ UNCHANGED controls

\* handleNewRowInputChange(e, field): an input of the 'Add New Data' form.
handleNewRowInputChange(field, newValue) ==
  /\ ~pendingEffect
  /\ newRow' = [k \in DOMAIN newRow \cup {field} |->
                  IF k = field THEN CellValue(field, newValue) ELSE newRow[k]]
  /\ UNCHANGED tableData
  /\ UNCHANGED <<rawData, cubeData, axisMapping, currentFilters, isRolledUp,
                 originalCubeDataBeforeRollUp, pendingEffect, lastEvent, beforeRollUp>>
  /\ UNCHANGED controls

\* Variant of handleAddRow that numbers the new row by the table's length.
handleAddRow_IdFromLength ==
  /\ ~pendingEffect
  /\ LET newId == Len(tableData) + 1
     IN /\ Len(tableData) < MaxTableRows /\ newId <= MaxRowId
        /\ tableData' = Append(tableData, TableRow(newId, newRow))
  /\ newRow' = BlankRow
  /\ UNCHANGED <<rawData, cubeData, axisMapping, currentFilters, isRolledUp,
                 originalCubeDataBeforeRollUp, pendingEffect, lastEvent, beforeRollUp>>
  /\ UNCHANGED controls

\* handleAddRow(): the form's row is appended under a fresh id and the form
\* is cleared (the table and the ids are kept within the bounds).
handleAddRow ==
  /\ ~pendingEffect
  /\ LET newId == IF Len(tableData) > 0 THEN MaxIdOf(tableData) + 1 ELSE 1
     IN /\ Len(tableData) < MaxTableRows /\ newId <= MaxRowId
        /\ tableData' = Append(tableData, TableRow(newId, newRow))
  /\ newRow' = BlankRow
  /\ UNCHANGED <<rawData, cubeData, axisMapping, currentFilters, isRolledUp,
                 originalCubeDataBeforeRollUp, pendingEffect, lastEvent, beforeRollUp>>
  /\ UNCHANGED controls

\* handleDeleteRow(id).
handleDeleteRow(id) ==
  /\ ~pendingEffect
  /\ LET keep(row) == row.id # id
     IN tableData' = SelectSeq(tableData, keep)
  /\ UNCHANGED newRow
  /\ UNCHANGED <<rawData, cubeData, axisMapping, currentFilters, isRolledUp,
                 originalCubeDataBeforeRollUp, pendingEffect, lastEvent, beforeRollUp>>
  /\ UNCHANGED controls

\* handleLoadData(): onDataChange(tableData).  The table's own effect on its
\* data prop then stores the array it has just handed over, which leaves
\* tableData as it is.
handleLoadData == handleDataTableChange(tableData)

\* The column whose cells are edited while the table is exercised.
EditedFields == {"region"}

\* The input of the 'Add New Data' form typed into while the table is exercised.
FormFields == {"continent"}

\* The texts typed into a text cell or a number cell.
CellTexts(field) ==
  IF field \in {"Q1", "Q2", "Q3", "Q4"} THEN { <<>>, <<"7">> } ELSE { <<>>, <<"A">> }

NextTable ==
  \/ CubeEffect
  \/ \E field \in FormFields : \E newValue \in CellTexts(field) :
       handleNewRowInputChange(field, newValue)
  \/ handleAddRow
  \/ \E i \in 1..Len(tableData) : \E field \in EditedFields :
       \E newValue \in CellTexts(field) :
         handleInputChange(tableData[i].id, field, newValue)
  \/ \E i \in 1..Len(tableData) : handleDeleteRow(tableData[i].id)
  \/ handleLoadData

\* The App with its data table: rows are added, edited, deleted and loaded.
SpecTable == Init /\ [][NextTable]_vars

\* No two rows share an id.
UniqueIds(rows) ==
  \A i, j \in 1..Len(rows) : i # j => rows[i].id # rows[j].id

\* C31: after any sequence of add-row, delete-row and edit-cell events no
\* two rows of the table share an id, nor do two rows of the raw data handed
\* over by a load, and the ids of the expanded facts are pairwise distinct.
C31_IdsUnique ==
  /\ UniqueIds(tableData)
  /\ UniqueIds(rawData)
  /\ UniqueIds(cubeData)
  /\ pendingEffect => tableData = rawData

\* C31 witness: the first row of the table was deleted, another one was
\* added and a cell was edited; the table was loaded and both rows expanded.
C31_Witness ==
  /\ ~pendingEffect /\ lastEvent.op = "load"
  /\ Len(rawData) = 2 /\ rawData[1].id = 2 /\ rawData[2].id = 3
  /\ rawData[1].region = <<"A">>
  /\ Len(cubeData) = 8

====
